---- MODULE Spec2Model ----
(***************************************************************************)
(* A model of chai's BDD assertion chain (lib/utils/flag.js and the        *)
(* Assertion prototype that follows it in the same source file).           *)
(*                                                                         *)
(* One chain is modelled: expect(subject) builds an Assertion, property    *)
(* reads and method calls are applied to the value the chain currently     *)
(* holds, and a predicate either returns (the chain goes on) or raises an  *)
(* AssertionError or an ordinary Error (the chain is over).                *)
(***************************************************************************)
EXTENDS Integers, Sequences, FiniteSets, TLC

(***************************************************************************)
(* Bounds of the model.                                                    *)
(***************************************************************************)
\* numbers used as subjects and arguments are -MaxNum .. MaxNum
MaxNum == 2
\* objects the chain may allocate (the Assertion plus the callable wrappers
\* that the `a`/`an`/`include`/`contain` getters return)
MaxObjs == 3
\* keys is called with at most MaxKeys keys
MaxKeys == 2

(***************************************************************************)
(* JavaScript values.  Strings are sequences of characters so that         *)
(* indexOf and RegExp.exec can be computed.                                *)
(***************************************************************************)
Undef == [t |-> "undefined"]
Null == [t |-> "null"]
Bool(b) == [t |-> "boolean", b |-> b]
Num(n) == [t |-> "number", n |-> n]
Str(s) == [t |-> "string", s |-> s]
Obj(i) == [t |-> "object", id |-> i]
Arr(e) == [t |-> "array", elems |-> e]
Re(p) == [t |-> "regexp", pat |-> p]
\* an Error instance: identity, constructor and message (Undef when absent)
Err(i, c, m) == [t |-> "error", id |-> i, cls |-> c, msg |-> m]
\* an Error constructor
Ctor(c) == [t |-> "ctor", cls |-> c]
\* a function of no arguments: body is "return" or the value it throws
Fn(b) == [t |-> "function", body |-> b]
\* a stack-frame anchor (the function stored in the ssfi flag)
Frame(n) == [t |-> "frame", name |-> n]

foo == <<"f", "o", "o">>
bar == <<"b", "a", "r">>
baz == <<"b", "a", "z">>
qux == <<"q", "u", "x">>

(***************************************************************************)
(* The values the chains of the model are run on.                          *)
(***************************************************************************)
bad == <<"b", "a", "d">>
\* the plain objects, each the sequence of its own enumerable <<key, value>>
\* pairs in insertion order: {foo:{bar:1}}, {bar:1}, {foo:1,bar:2},
\* {foo:1,bar:2,baz:3}, {}
ObjTable ==
    << << <<foo, Obj(2)>> >>,
       << <<bar, Num(1)>> >>,
       << <<foo, Num(1)>>, <<bar, Num(2)>> >>,
       << <<foo, Num(1)>>, <<bar, Num(2)>>, <<baz, Num(3)>> >>,
       << >> >>
Objects == {Obj(i) : i \in 1..Len(ObjTable)}
\* {bar:1} is met only as the foo of {foo:{bar:1}}
TopObjects == Objects \ {Obj(2)}
\* new TypeError('bad'), new Error(''), new RangeError('bad'), and a second
\* new TypeError('bad') that is never thrown
Errors ==
    { Err(1, "TypeError", Str(bad)), Err(2, "Error", Str(<< >>)),
      Err(3, "RangeError", Str(bad)), Err(4, "TypeError", Str(bad)) }
NoThrow == [t |-> "return"]
\* what a subject function does when invoked: return, or throw one of these
Thrown == {e \in Errors : e.id # 4} \cup {Str(bad), Null}
Functions == {Fn(b) : b \in {NoThrow} \cup Thrown}
Numbers == {Num(n) : n \in (0 - MaxNum)..MaxNum}
\* 'foo', 'foobar' and [1, 2]
Strings == {Str(foo), Str(foo \o bar)}
Arrays == {Arr(<<Num(1), Num(2)>>)}
Subjects ==
    {Undef, Bool(TRUE), Bool(FALSE)} \cup Numbers \cup TopObjects \cup Functions
    \cup Strings \cup Arrays
ErrorClasses == {"Error", "TypeError", "RangeError"}

(***************************************************************************)
(* The language semantics the assertions rely on.                          *)
(***************************************************************************)
\* ToBoolean
Truthy(v) ==
    CASE v.t \in {"undefined", "null"} -> FALSE
      [] v.t = "boolean" -> v.b
      [] v.t = "number" -> v.n # 0
      [] v.t = "string" -> v.s # << >>
      [] OTHER -> TRUE
\* the logical not operator: !v
Not(v) == Bool(~Truthy(v))
\* a === b (objects, errors and functions are compared by identity, which
\* the id field stands for)
StrictEq(a, b) == a = b
\* Object.prototype.toString.call(v), without the '[object ' ... ']' frame
TypeTag(v) ==
    CASE v.t = "undefined" -> <<"U", "n", "d", "e", "f", "i", "n", "e", "d">>
      [] v.t = "null" -> <<"N", "u", "l", "l">>
      [] v.t = "boolean" -> <<"B", "o", "o", "l", "e", "a", "n">>
      [] v.t = "number" -> <<"N", "u", "m", "b", "e", "r">>
      [] v.t = "string" -> <<"S", "t", "r", "i", "n", "g">>
      [] v.t = "array" -> <<"A", "r", "r", "a", "y">>
      [] v.t = "regexp" -> <<"R", "e", "g", "E", "x", "p">>
      [] v.t = "error" -> <<"E", "r", "r", "o", "r">>
      [] v.t \in {"function", "ctor"} -> <<"F", "u", "n", "c", "t", "i", "o", "n">>
      [] OTHER -> <<"O", "b", "j", "e", "c", "t">>
\* c.toUpperCase() for one character
ToUpperCase(c) ==
    CASE c = "a" -> "A" [] c = "b" -> "B" [] c = "f" -> "F" [] c = "n" -> "N"
      [] c = "o" -> "O" [] c = "s" -> "S" [] c = "u" -> "U"
      [] OTHER -> c
\* typeof v
TypeOf(v) ==
    CASE v.t \in {"undefined", "boolean", "number", "string"} -> v.t
      [] v.t \in {"function", "ctor"} -> "function"
      [] OTHER -> "object"
\* v instanceof the Error constructor named cls
InstanceOf(v, cls) == v.t = "error" /\ (v.cls = cls \/ cls = "Error")
\* s.indexOf(p) for sequences of characters: the first position (from 0) at
\* which p occurs in s, or -1
IndexOf(s, p) ==
    LET hits == {i \in 0..(Len(s) - Len(p)) : SubSeq(s, i + 1, i + Len(p)) = p}
    IN  IF hits = {} THEN 0 - 1 ELSE CHOOSE i \in hits : \A j \in hits : i <= j
\* ~n for the two kinds of result indexOf has: ~(-1) = 0, ~n = -(n+1)
BitNot(n) == 0 - (n + 1)
\* re.exec(s) for a regexp whose pattern is a literal: the match or null
Exec(re, s) == IF IndexOf(s, re.pat) >= 0 THEN Arr(<<Str(re.pat)>>) ELSE Null
\* Object.keys(v) of a plain object
OwnKeys(v) == [i \in 1..Len(ObjTable[v.id]) |-> Str(ObjTable[v.id][i][1])]
\* the decimal digit d as a character
Digit(d) ==
    CASE d = 0 -> "0" [] d = 1 -> "1" [] d = 2 -> "2" [] d = 3 -> "3" [] d = 4 -> "4"
      [] d = 5 -> "5" [] d = 6 -> "6" [] d = 7 -> "7" [] d = 8 -> "8" [] OTHER -> "9"
\* String(v) for a string and for an integer of one digit
ToStr(v) ==
    IF v.t = "string" THEN v.s
    ELSE IF v.n < 0 THEN <<"-", Digit(0 - v.n)>> ELSE <<Digit(v.n)>>
\* the index keys '0', '1', ... of a string or an array of n elements
IndexKeys(n) == [i \in 1..n |-> Str(<<Digit(i - 1)>>)]
lengthKey == <<"l", "e", "n", "g", "t", "h">>
\* v[key]: the value of the own property, undefined when there is none; the
\* length of a string, of an array, and of a function (its number of
\* parameters, none here)
GetProp(v, key) ==
    IF v.t = "string" THEN IF key = lengthKey THEN Num(Len(v.s)) ELSE Undef
    ELSE IF v.t = "array" THEN IF key = lengthKey THEN Num(Len(v.elems)) ELSE Undef
    ELSE IF v.t = "function" THEN IF key = lengthKey THEN Num(0) ELSE Undef
    ELSE IF v.t # "object" THEN Undef
    ELSE LET ps == ObjTable[v.id]
             hit == {i \in 1..Len(ps) : ps[i][1] = key}
         IN  IF hit = {} THEN Undef ELSE ps[CHOOSE i \in hit : TRUE][2]
\* array.indexOf(v) as a test: some element is strictly equal to v
ArrHas(a, v) == \E i \in 1..Len(a) : StrictEq(a[i], v)
\* array.indexOf(v): the first index (from 0) of an element strictly equal
\* to v, or -1
ArrIndexOf(a, v) ==
    LET hits == {i \in 1..Len(a) : StrictEq(a[i], v)}
    IN  IF hits = {} THEN 0 - 1 ELSE (CHOOSE i \in hits : \A j \in hits : i <= j) - 1

(***************************************************************************)
(* The objects of a chain.  heap[i] is an object: proto is the object its  *)
(* property lookups fall through to (0: Assertion.prototype), has tells    *)
(* whether it owns a __flags store, and flags is that store (every flag    *)
(* undefined until it is set).                                             *)
(***************************************************************************)
FlagNames == {"ssfi", "object", "message", "negate", "contains", "tense"}
NoFlags == [k \in FlagNames |-> Undef]
NewObject(p) == [proto |-> p, has |-> FALSE, flags |-> NoFlags]

\* the object on which the lookup obj.__flags finds the store, 0 if none
RECURSIVE Holder(_, _)
Holder(h, obj) ==
    IF obj = 0 THEN 0
    ELSE IF h[obj].has THEN obj
    ELSE Holder(h, h[obj].proto)
\* var flags = obj.__flags || (obj.__flags = new Object(null))
flagStore(h, obj) ==
    IF Holder(h, obj) # 0 THEN h ELSE [h EXCEPT ![obj].has = TRUE]
\* flag(obj, key): the value of the flag
flag(h, obj, key) ==
    LET h1 == flagStore(h, obj)
    IN  h1[Holder(h1, obj)].flags[key]
\* flag(obj, key, value): the heap after the flag is set
flagSet(h, obj, key, value) ==
    LET h1 == flagStore(h, obj)
    IN  [h1 EXCEPT ![Holder(h1, obj)].flags[key] = value]
\* the whole store obj reads its flags from
FlagsOf(h, obj) == [k \in FlagNames |-> flag(h, obj, k)]

\* new Assertion(obj, msg, stack): the heap with the new object last
Assertion(h, obj, msg, stack) ==
    LET this == Len(h) + 1
        h0 == Append(h, NewObject(0))
        h1 == flagSet(h0, this, "ssfi", IF Truthy(stack) THEN stack ELSE Frame("Assertion"))
        h2 == flagSet(h1, this, "object", obj)
    IN  flagSet(h2, this, "message", msg)

(***************************************************************************)
(* A call in progress: h is the heap, out is "run" until something is      *)
(* raised ("failure": an AssertionError, "error": any other error), log    *)
(* holds one record per call of assert, report the AssertionError raised.  *)
(***************************************************************************)
NoReport == [t |-> "none"]
Start(h) == [h |-> h, out |-> "run", log |-> << >>, report |-> NoReport]

\* util.test(obj, args): negate ? !expr : expr
test(h, this, expr) ==
    IF Truthy(flag(h, this, "negate")) THEN Not(expr) ELSE expr
\* util.getActual(obj, args): the fifth argument, or the subject
getActual(h, this, actual) ==
    IF actual # Undef THEN actual ELSE flag(h, this, "object")
\* util.getMessage(obj, args): which template is rendered, and the custom
\* message that prefixes it
getMessage(h, this) ==
    [tmpl |-> IF Truthy(flag(h, this, "negate")) THEN "negateMsg" ELSE "msg",
     custom |-> flag(h, this, "message")]

\* Assertion.includeStack
includeStack == FALSE

\* a variant of assert that tests expr itself and never consults negate
assertMutIgnoresNegate(c, this, expr, expected, actual) ==
    IF c.out # "run" THEN c
    ELSE [c EXCEPT !.out = IF Truthy(expr) THEN "run" ELSE "failure",
                   !.log = Append(@, [this |-> this, expr |-> expr, expected |-> expected,
                                       negate |-> flag(c.h, this, "negate"),
                                       raised |-> ~Truthy(expr)])]
\* this.assert(expr, msg, negateMsg, expected, _actual)
assert(c, this, expr, expected, actual) ==
    IF c.out # "run" THEN c
    ELSE LET msg == getMessage(c.h, this)
             act == getActual(c.h, this, actual)
             ok == test(c.h, this, expr)
             rec == [this |-> this, expr |-> expr, expected |-> expected,
                     negate |-> flag(c.h, this, "negate"), raised |-> ~Truthy(ok)]
         IN  IF ~Truthy(ok)
             THEN [c EXCEPT !.out = "failure",
                            !.log = Append(@, rec),
                            !.report = [t |-> "AssertionError", message |-> msg,
                                        actual |-> act, expected |-> expected,
                                        stackStartFunction |->
                                            IF includeStack THEN Frame("assert")
                                            ELSE flag(c.h, this, "ssfi")]]
             ELSE [c EXCEPT !.log = Append(@, rec)]

(***************************************************************************)
(* The getters.  Each gives the heap after the read and the value read.    *)
(***************************************************************************)
Got(h, ret) == [h |-> h, ret |-> ret]

to(h, this) == Got(h, this)
be(h, this) == Got(h, this)
been(h, this) == Got(flagSet(h, this, "tense", Str(<<"p", "a", "s", "t">>)), this)
is(h, this) == Got(h, this)
and(h, this) == Got(h, this)
have(h, this) == Got(h, this)
with(h, this) == Got(h, this)
\* a variant of not that toggles the flag
notMutToggles(h, this) ==
    Got(flagSet(h, this, "negate", Not(flag(h, this, "negate"))), this)
not(h, this) == Got(flagSet(h, this, "negate", Bool(TRUE)), this)

\* a variant of the getter that returns this, like the plain chain words
anMutReturnsThis(h, this) == Got(h, this)
\* the getter of `an` and `a`: a new function whose __proto__ is this
an(h, this) == Got(Append(h, NewObject(this)), Len(h) + 1)
\* the function that getter returns, called with a type name
anAssert(c, this, type) ==
    LET obj == flag(c.h, this, "object")
        klass == IF type = << >> THEN << >>
                 ELSE <<ToUpperCase(Head(type))>> \o Tail(type)
    IN  assert(c, this, Bool(klass = TypeTag(obj)), Str(klass), Str(TypeTag(obj)))

\* a variant of the getter that toggles the flag
includeMutToggles(h, this) ==
    LET h1 == flagSet(h, this, "contains", Not(flag(h, this, "contains")))
    IN  Got(Append(h1, NewObject(this)), Len(h1) + 1)
\* the getter of `include` and `contain`
include(h, this) ==
    LET h1 == flagSet(h, this, "contains", Bool(TRUE))
    IN  Got(Append(h1, NewObject(this)), Len(h1) + 1)

(***************************************************************************)
(* The collaborators of lib/utils the predicates call.                     *)
(***************************************************************************)
\* the parts of a dotted path: 'foo.bar' gives <<foo, bar>>
RECURSIVE parsePath(_)
parsePath(path) ==
    LET dots == {i \in 1..Len(path) : path[i] = "."}
    IN  IF dots = {} THEN <<path>>
        ELSE LET d == CHOOSE i \in dots : \A j \in dots : i <= j
             IN  <<SubSeq(path, 1, d - 1)>> \o parsePath(SubSeq(path, d + 1, Len(path)))
\* the value reached from obj along the parts, undefined once a part is missing
RECURSIVE walkPath(_, _)
walkPath(parts, obj) ==
    IF parts = << >> THEN obj
    ELSE IF ~Truthy(obj) THEN Undef
    ELSE walkPath(Tail(parts), GetProp(obj, Head(parts)))
\* util.getPathValue(path, obj)
getPathValue(path, obj) == walkPath(parsePath(path.s), obj)
\* util.inspect(v) of a string: the string in quotes
inspect(v) == IF v.t = "string" THEN Str(<<"'">> \o v.s \o <<"'">>) ELSE v

(***************************************************************************)
(* The predicates.  Each takes the call in progress and gives it back      *)
(* after its own steps; a step after something was raised does nothing.    *)
(***************************************************************************)
\* an ordinary error is thrown
Throws(c, name, message) ==
    IF c.out # "run" THEN c
    ELSE [c EXCEPT !.out = "error", !.report = [t |-> name, message |-> message]]
\* the members of Assertion.prototype
PrototypeMembers ==
    {"assert", "to", "be", "been", "an", "a", "contain", "include", "is", "and", "have",
     "with", "not", "ok", "true", "false", "exist", "empty", "arguments", "equal", "eql",
     "above", "below", "within", "instanceOf", "property", "ownProperty", "length",
     "match", "string", "keys", "Throw", "respondTo", "satisfy", "closeTo", "eq", "mt",
     "lt", "lengthOf", "key", "haveOwnProperty", "greaterThan", "lessThan", "throws",
     "throw", "instanceof"}
\* this.negate: a property read on the object, not a read of the flag.  The
\* objects of a chain own no property but __flags, so the read falls through
\* to Assertion.prototype and is undefined unless that has such a member.
thisNegate(h, this) == IF "negate" \in PrototypeMembers THEN Fn(NoThrow) ELSE Undef

ok(c, this) == assert(c, this, flag(c.h, this, "object"), Undef, Undef)
true(c, this) ==
    assert(c, this, Bool(StrictEq(Bool(TRUE), flag(c.h, this, "object"))),
           IF Truthy(thisNegate(c.h, this)) THEN Bool(FALSE) ELSE Bool(TRUE), Undef)
false(c, this) ==
    assert(c, this, Bool(StrictEq(Bool(FALSE), flag(c.h, this, "object"))),
           IF Truthy(thisNegate(c.h, this)) THEN Bool(TRUE) ELSE Bool(FALSE), Undef)
exist(c, this) ==
    assert(c, this, Bool(flag(c.h, this, "object") \notin {Null, Undef}), Undef, Undef)
equal(c, this, val) ==
    assert(c, this, Bool(StrictEq(val, flag(c.h, this, "object"))), val, Undef)

\* ToNumber(v); NaN for what is not a number.  The empty string is 0 and no
\* other string here is a numeral; an array goes by its string form, which
\* is empty for [] and not a numeral for two elements or more.
NaN == [t |-> "number", nan |-> TRUE]
ToNumber(v) ==
    CASE v.t = "number" -> v
      [] v.t = "boolean" -> Num(IF v.b THEN 1 ELSE 0)
      [] v.t = "null" -> Num(0)
      [] v.t = "string" /\ v.s = << >> -> Num(0)
      [] v.t = "array" /\ v.elems = << >> -> Num(0)
      [] v.t = "array" /\ Len(v.elems) = 1 /\ v.elems[1].t = "number" -> v.elems[1]
      [] OTHER -> NaN
\* a - b
Minus(a, b) ==
    IF ToNumber(a) = NaN \/ ToNumber(b) = NaN THEN NaN
    ELSE Num(ToNumber(a).n - ToNumber(b).n)
\* a + b; for an object or a function operand the sum is a string, which is
\* strictly equal to no number
Plus(a, b) ==
    IF a.t \in {"number", "boolean", "null", "undefined"}
    THEN IF ToNumber(a) = NaN \/ ToNumber(b) = NaN THEN NaN
         ELSE Num(ToNumber(a).n + ToNumber(b).n)
    ELSE Str(<<"?">>)
\* a === b for numbers: NaN is equal to nothing
NumEq(a, b) == a # NaN /\ b # NaN /\ a = b

\* a > b and a <= b, a >= b on operands converted to numbers; every
\* comparison with NaN is false
Greater(a, b) == ToNumber(a) # NaN /\ ToNumber(b) # NaN /\ ToNumber(a).n > ToNumber(b).n
AtMost(a, b) == ToNumber(a) # NaN /\ ToNumber(b) # NaN /\ ToNumber(a).n <= ToNumber(b).n
above(c, this, val) ==
    assert(c, this, Bool(Greater(flag(c.h, this, "object"), val)), Undef, Undef)
below(c, this, val) ==
    assert(c, this, Bool(Greater(val, flag(c.h, this, "object"))), Undef, Undef)
within(c, this, start, finish) ==
    LET obj == flag(c.h, this, "object")
    IN  assert(c, this, Bool(AtMost(start, obj) /\ AtMost(obj, finish)), Undef, Undef)

\* a variant of property that does not write the object flag
propertyMutKeepsSubject(c, this, name, val) ==
    LET obj == flag(c.h, this, "object")
        value == getPathValue(name, obj)
        negate == flag(c.h, this, "negate")
        c1 == IF Truthy(negate) /\ val # Undef
              THEN IF value = Undef
                   THEN Throws(c, "Error", "has no property")
                   ELSE c
              ELSE assert(c, this, Bool(value # Undef), Undef, Undef)
    IN  IF val # Undef THEN assert(c1, this, Bool(StrictEq(val, value)), val, value) ELSE c1
\* property(name, val)
property(c, this, name, val) ==
    LET obj == flag(c.h, this, "object")
        value == getPathValue(name, obj)
        negate == flag(c.h, this, "negate")
        c1 == IF Truthy(negate) /\ val # Undef
              THEN IF value = Undef
                   THEN Throws(c, "Error", "has no property")
                   ELSE c
              ELSE assert(c, this, Bool(value # Undef), Undef, Undef)
        c2 == IF val # Undef THEN assert(c1, this, Bool(StrictEq(val, value)), val, value)
              ELSE c1
    IN  IF c2.out = "run" THEN [c2 EXCEPT !.h = flagSet(c2.h, this, "object", value)] ELSE c2

\* a variant of length that checks for the property on the chain itself
lengthMutChecksOnChain(c, this, n) ==
    LET obj == flag(c.h, this, "object")
        c0 == property(c, this, Str(lengthKey), Undef)
        len == GetProp(obj, lengthKey)
    IN  assert(c0, this, Bool(len = n), n, len)
\* length(n)
length(c, this, n) ==
    LET obj == flag(c.h, this, "object")
        \* new Assertion(obj).to.have.property('length')
        h1 == Assertion(c.h, obj, Undef, Undef)
        g1 == to(h1, Len(h1))
        g2 == have(g1.h, g1.ret)
        c0 == property([c EXCEPT !.h = g2.h], g2.ret, Str(lengthKey), Undef)
        len == GetProp(obj, lengthKey)
    IN  assert(c0, this, Bool(len = n), n, len)
\* string(str)
string(c, this, str) ==
    LET obj == flag(c.h, this, "object")
        \* new Assertion(obj).is.a('string')
        h1 == Assertion(c.h, obj, Undef, Undef)
        g1 == is(h1, Len(h1))
        g2 == an(g1.h, g1.ret)
        c0 == anAssert([c EXCEPT !.h = g2.h], g1.ret, <<"s", "t", "r", "i", "n", "g">>)
    IN  IF c0.out # "run" THEN c0
        ELSE assert(c0, this, Num(BitNot(IndexOf(obj.s, ToStr(str)))), Undef, Undef)
\* the function the getter of `include` and `contain` returns, called with
\* val: obj.indexOf is a method of strings and arrays only
includeAssert(c, this, val) ==
    LET obj == flag(c.h, this, "object")
    IN  CASE obj.t = "string" ->
               assert(c, this, Num(BitNot(IndexOf(obj.s, ToStr(val)))), Undef, Undef)
          [] obj.t = "array" ->
               assert(c, this, Num(BitNot(ArrIndexOf(obj.elems, val))), Undef, Undef)
          [] OTHER -> Throws(c, "TypeError", "obj.indexOf")

\* Object.keys(v): the own enumerable keys; a TypeError for undefined and
\* null, and for the other primitives on an engine that follows ES5 (es5)
ObjectKeysThrows(v, es5) ==
    \/ v.t \in {"undefined", "null"}
    \/ es5 /\ v.t \in {"boolean", "number", "string"}
ObjectKeys(v) ==
    CASE v.t = "object" -> OwnKeys(v)
      [] v.t = "string" -> IndexKeys(Len(v.s))
      [] v.t = "array" -> IndexKeys(Len(v.elems))
      [] OTHER -> << >>

\* empty: an array's length, the number of keys of what typeof calls an
\* object, else the subject itself; Object.keys(null) is a TypeError
empty(c, this) ==
    LET obj == flag(c.h, this, "object")
        expected == IF obj.t = "array" THEN Num(Len(obj.elems))
                    ELSE IF TypeOf(obj) = "object" THEN Num(Len(ObjectKeys(obj)))
                    ELSE obj
    IN  IF obj.t # "array" /\ TypeOf(obj) = "object" /\ ObjectKeysThrows(obj, FALSE)
        THEN Throws(c, "TypeError", "Object.keys")
        ELSE assert(c, this, Not(expected), Undef, Undef)
\* a variant of keys that takes the subject's keys first and reports missing
\* keys through assert
keysMutChecksLate(c, this, args, es5) ==
    LET obj == flag(c.h, this, "object")
        keys == IF Len(args) > 0 /\ args[1].t = "array" THEN args[1].elems ELSE args
    IN  IF ObjectKeysThrows(obj, es5) THEN Throws(c, "TypeError", "Object.keys")
        ELSE IF Len(keys) = 0 THEN assert(c, this, Bool(FALSE), Arr(keys), Undef)
        ELSE LET actual == ObjectKeys(obj)
             IN  assert(c, this, Bool(\A i \in 1..Len(keys) : ArrHas(actual, keys[i])),
                        Arr(keys), Arr(actual))
\* keys(key1, [key2], [...]) called with the arguments args
keys(c, this, args, es5) ==
    LET obj == flag(c.h, this, "object")
        keys == IF Len(args) > 0 /\ args[1].t = "array" THEN args[1].elems ELSE args
    IN  IF Len(keys) = 0 THEN Throws(c, "Error", "keys required")
        ELSE IF ObjectKeysThrows(obj, es5) THEN Throws(c, "TypeError", "Object.keys")
        ELSE LET actual == ObjectKeys(obj)
                 len == Len(keys)
                 inclusion == \A i \in 1..len : ArrHas(actual, keys[i])
                 ok1 == IF ~Truthy(flag(c.h, this, "negate"))
                           /\ ~Truthy(flag(c.h, this, "contains"))
                        THEN inclusion /\ Len(keys) = Len(actual)
                        ELSE inclusion
                 \* keys.map(inspect) and keys.pop() have run when len > 1
                 expected == IF len > 1
                             THEN Arr([i \in 1..(len - 1) |-> inspect(keys[i])])
                             ELSE Arr(keys)
             IN  assert(c, this, Bool(ok1), expected, Arr(actual))

\* a variant of closeTo that accepts the whole interval
closeToMutTolerance(c, this, expected, delta) ==
    LET obj == flag(c.h, this, "object")
        lo == Minus(expected, delta)
        hi == Plus(expected, delta)
    IN  assert(c, this,
               Bool(obj.t = "number" /\ lo.n <= obj.n /\ obj.n <= hi.n), Undef, Undef)
\* closeTo(expected, delta)
closeTo(c, this, expected, delta) ==
    LET obj == flag(c.h, this, "object")
    IN  assert(c, this,
               Bool(NumEq(Minus(obj, delta), expected) \/ NumEq(Plus(obj, delta), expected)),
               Undef, Undef)

\* err.message
Message(err) == IF err.t = "error" THEN err.msg ELSE Undef

\* The catch block of Throw for the caught value err, after the arguments were
\* sorted into desiredError, constructor and msg (Null where there is none).
\* thrown tells whether control leaves the block for the final assert.
Caught(c, this, err, desiredError, constructor, msg) ==
    IF Truthy(desiredError)
    THEN [c |-> assert(c, this, Bool(StrictEq(err, desiredError)), Undef, Undef),
          thrown |-> FALSE, done |-> TRUE]
    ELSE LET c1 == IF Truthy(constructor)
                   THEN assert(c, this, Bool(InstanceOf(err, constructor.cls)), Undef, Undef)
                   ELSE c
         IN  IF c1.out # "run" THEN [c |-> c1, thrown |-> FALSE, done |-> TRUE]
             ELSE IF Truthy(constructor) /\ ~Truthy(msg)
             THEN [c |-> c1, thrown |-> FALSE, done |-> TRUE]
             ELSE IF err.t \in {"null", "undefined"}
             THEN [c |-> Throws(c1, "TypeError", "err.message"),
                   thrown |-> FALSE, done |-> TRUE]
             ELSE IF Truthy(Message(err)) /\ Truthy(msg) /\ msg.t = "regexp"
             THEN [c |-> assert(c1, this, Exec(msg, Message(err).s), Undef, Undef),
                   thrown |-> FALSE, done |-> TRUE]
             ELSE IF Truthy(Message(err)) /\ Truthy(msg) /\ msg.t = "string"
             THEN [c |-> assert(c1, this, Num(BitNot(IndexOf(Message(err).s, msg.s))),
                                msg, Message(err)),
                   thrown |-> FALSE, done |-> TRUE]
             ELSE [c |-> c1, thrown |-> TRUE, done |-> FALSE]

\* Throw(constructor, msg) called with the arguments args
Throw(c, this, args) ==
    LET obj == flag(c.h, this, "object")
        \* new Assertion(obj).is.a('function')
        h1 == Assertion(c.h, obj, Undef, Undef)
        g1 == is(h1, Len(h1))
        g2 == an(g1.h, g1.ret)
        c0 == anAssert([c EXCEPT !.h = g2.h], g1.ret,
                       <<"f", "u", "n", "c", "t", "i", "o", "n">>)
        a1 == IF Len(args) >= 1 THEN args[1] ELSE Undef
        a2 == IF Len(args) >= 2 THEN args[2] ELSE Undef
        shape == IF Len(args) = 0 THEN "none"
                 ELSE IF Truthy(a1) /\ (a1.t = "regexp" \/ TypeOf(a1) = "string")
                 THEN "matcher"
                 ELSE IF Truthy(a1) /\ a1.t = "error" THEN "instance"
                 ELSE IF TypeOf(a1) = "function" THEN "constructor"
                 ELSE "other"
        desiredError == IF shape = "instance" THEN a1 ELSE Null
        constructor == IF shape = "constructor" THEN a1 ELSE Null
        msg == CASE shape = "none" -> Null
                 [] shape = "matcher" -> a1
                 [] shape = "instance" -> Null
                 [] OTHER -> a2
    IN  IF c0.out # "run" THEN c0
        ELSE IF obj.body = NoThrow
        THEN assert(c0, this, Bool(FALSE), Undef, Undef)
        ELSE LET k == Caught(c0, this, obj.body, desiredError, constructor, msg)
             IN  IF k.done THEN k.c
                 ELSE assert(k.c, this, Bool(k.thrown), Undef, Undef)

(***************************************************************************)
(* The chain.                                                              *)
(*   heap    the objects of the chain; heap[1] is the Assertion            *)
(*   self    the object the chain holds: what the last read or call gave   *)
(*   status  "chain" while the chain can go on, "failed" once an           *)
(*           AssertionError was raised, "error" once another error was     *)
(*   last    the read or call that has just ended: its name, arguments     *)
(*           and receiver, the flags before it, how it ended, what it      *)
(*           returned, its asserts; op is "none" when the expression has   *)
(*           moved on and the next read or call has not happened yet       *)
(***************************************************************************)
VARIABLES heap, self, status, last
vars == <<heap, self, status, last>>

\* the inputs
Messages == {Undef, Str(<<"m">>)}
TypeNames == {<<"f", "u", "n", "c", "t", "i", "o", "n">>, <<"o", "b", "j", "e", "c", "t">>,
              <<"n", "u", "m", "b", "e", "r">>}
EqualArgs == {Undef, Bool(TRUE), Num(1)}
PropNames == {Str(foo), Str(bar), Str(qux), Str(foo \o <<".">> \o bar)}
PropVals == {Undef, Num(1), Num(2)}
KeyNames == {Str(foo), Str(bar), Str(baz)}
KeyLists == UNION {[1..n -> KeyNames] : n \in 0..MaxKeys}
KeysArgs == KeyLists \cup {<<Arr(ks)>> : ks \in KeyLists}
Matchers == {Re(<<"a", "d">>), Re(<<"n", "o">>), Re(<< >>),
             Str(<<"b", "a">>), Str(<<"n", "o">>), Str(<< >>)}
LengthArgs == {Num(0), Num(2), Num(3)}
StringArgs == {Str(bar), Str(qux)}
IncludeArgs == {Str(bar), Str(qux), Num(1), Num(0)}
ThrowArgs ==
    {<< >>} \cup {<<m>> : m \in Matchers}
    \cup {<<e>> : e \in {x \in Errors : x.id \in {1, 4}}}
    \cup {<<Ctor(k)>> : k \in ErrorClasses}
    \cup {<<Ctor(k), m>> : k \in ErrorClasses, m \in Matchers}
    \cup {<<Undef, Re(<<"a", "d">>)>>}

Idle == [op |-> "none", args |-> << >>, recv |-> 0, pre |-> NoFlags, out |-> "run",
         ret |-> 0, log |-> << >>, report |-> NoReport]
\* the chain can take its next read or call
Ready == status = "chain" /\ last.op = "none"

\* expect(obj, msg)
expect(obj, msg) == Assertion(<< >>, obj, msg, Undef)

Init ==
    /\ \E obj \in Subjects, msg \in Messages : heap = expect(obj, msg)
    /\ self = 1
    /\ status = "chain"
    /\ last = Idle

\* The read or call op ended as c tells, returning ret; the first keep objects
\* of the heap are still reachable.
Step(op, args, c, ret, keep) ==
    /\ heap' = SubSeq(c.h, 1, IF c.out = "run" THEN keep ELSE Len(heap))
    /\ self' = IF c.out = "run" THEN ret ELSE self
    /\ status' = CASE c.out = "run" -> "chain"
                   [] c.out = "failure" -> "failed"
                   [] OTHER -> "error"
    /\ last' = [op |-> op, args |-> args, recv |-> self, pre |-> FlagsOf(heap, self),
                out |-> c.out, ret |-> IF c.out = "run" THEN ret ELSE 0,
                log |-> c.log, report |-> c.report]
\* a getter that asserts nothing
Read(op, g) == Step(op, << >>, Start(g.h), g.ret, Len(g.h))

To == Ready /\ Read("to", to(heap, self))
Be == Ready /\ Read("be", be(heap, self))
Been == Ready /\ Read("been", been(heap, self))
Is == Ready /\ Read("is", is(heap, self))
And == Ready /\ Read("and", and(heap, self))
Have == Ready /\ Read("have", have(heap, self))
With == Ready /\ Read("with", with(heap, self))
NotRead == Ready /\ Read("not", not(heap, self))
\* `an` or `a` read as a chain word
An == Ready /\ Len(heap) < MaxObjs /\ \E w \in {"an", "a"} : Read(w, an(heap, self))
\* `an(type)` or `a(type)`: the getter is read and what it gives is called on
\* the receiver
AnCall ==
    /\ Ready
    /\ \E type \in TypeNames :
          LET g == an(heap, self)
          IN  Step("a()", <<Str(type)>>, anAssert(Start(g.h), self, type), self, Len(heap))
\* `include` or `contain` read as a chain word
Include ==
    /\ Ready /\ Len(heap) < MaxObjs
    /\ \E w \in {"include", "contain"} : Read(w, include(heap, self))
Ok == Ready /\ Step("ok", << >>, ok(Start(heap), self), self, Len(heap))
True == Ready /\ Step("true", << >>, true(Start(heap), self), self, Len(heap))
False == Ready /\ Step("false", << >>, false(Start(heap), self), self, Len(heap))
Exist == Ready /\ Step("exist", << >>, exist(Start(heap), self), self, Len(heap))
Equal ==
    /\ Ready
    /\ \E val \in EqualArgs :
          Step("equal", <<val>>, equal(Start(heap), self, val), self, Len(heap))
Empty == Ready /\ Step("empty", << >>, empty(Start(heap), self), self, Len(heap))
Above ==
    /\ Ready
    /\ \E val \in Numbers :
          Step("above", <<val>>, above(Start(heap), self, val), self, Len(heap))
Below ==
    /\ Ready
    /\ \E val \in Numbers :
          Step("below", <<val>>, below(Start(heap), self, val), self, Len(heap))
Within ==
    /\ Ready
    /\ \E start \in Numbers, finish \in Numbers :
          Step("within", <<start, finish>>, within(Start(heap), self, start, finish),
               self, Len(heap))
Length ==
    /\ Ready
    /\ \E n \in LengthArgs :
          Step("length", <<n>>, length(Start(heap), self, n), self, Len(heap))
String ==
    /\ Ready
    /\ \E str \in StringArgs :
          Step("string", <<str>>, string(Start(heap), self, str), self, Len(heap))
\* `include(val)` or `contain(val)`: the getter is read and what it gives is
\* called on the receiver
IncludeCall ==
    /\ Ready
    /\ \E val \in IncludeArgs :
          LET g == include(heap, self)
          IN  Step("include()", <<val>>, includeAssert(Start(g.h), self, val),
                   self, Len(heap))
Property ==
    /\ Ready
    /\ \E name \in PropNames, val \in PropVals :
          Step("property", <<name, val>>, property(Start(heap), self, name, val),
               self, Len(heap))
Keys ==
    /\ Ready
    /\ \E args \in KeysArgs,
          es5 \in IF flag(heap, self, "object").t \in {"boolean", "number", "string"}
                  THEN BOOLEAN ELSE {TRUE} :
          Step("keys", args, keys(Start(heap), self, args, es5), self, Len(heap))
ThrowCall ==
    /\ Ready
    /\ \E args \in ThrowArgs :
          Step("Throw", args, Throw(Start(heap), self, args), self, Len(heap))
CloseTo ==
    /\ Ready
    /\ \E expected \in Numbers, delta \in Numbers :
          Step("closeTo", <<expected, delta>>,
               closeTo(Start(heap), self, expected, delta), self, Len(heap))

\* the expression moves on from the value it was given to its next member
Resume ==
    /\ status = "chain" /\ last.op # "none"
    /\ last' = Idle
    /\ UNCHANGED <<heap, self, status>>

Next ==
    \/ Resume
    \/ To \/ Be \/ Been \/ Is \/ And \/ Have \/ With \/ NotRead
    \/ An \/ AnCall \/ Include \/ IncludeCall
    \/ Ok \/ True \/ False \/ Exist \/ Empty \/ Equal
    \/ Above \/ Below \/ Within \/ Length \/ String
    \/ Property \/ Keys \/ ThrowCall \/ CloseTo

Spec == Init /\ [][Next]_vars

(***************************************************************************)
(* What the claims are stated with.                                        *)
(***************************************************************************)
\* the flags the chain reads now
Flags == FlagsOf(heap, self)
\* the effective boolean of an assert that got expr while negate had value n
Effective(expr, n) == IF Truthy(n) THEN ~Truthy(expr) ELSE Truthy(expr)
\* the asserts of the last read or call that were made on the chain itself
\* (not on an Assertion the call built)
ChainAsserts == {i \in 1..Len(last.log) : last.log[i].this = last.recv}
\* the reads and calls that do nothing but assert
AssertOnly ==
    {"ok", "true", "false", "exist", "empty", "equal", "above", "below", "within", "a()",
     "length", "string", "keys", "Throw", "closeTo"}
LanguageChains == {"to", "be", "is", "and", "have", "with"}

(***************************************************************************)
(* C1.  Every call of assert raises an AssertionError exactly when the     *)
(* effective boolean (the truthiness of expr, inverted when the negate     *)
(* flag is set) is false: the call ends in a failure exactly when its last *)
(* assert had a false effective boolean, no assert before the last had     *)
(* one, and a read or call that only asserts and raises nothing leaves     *)
(* every flag as it was and returns its receiver.                          *)
(***************************************************************************)
C1_AssertRaisesIffNotOk ==
    last.op # "none" =>
        /\ \A i \in 1..Len(last.log) :
              /\ last.log[i].raised <=> ~Effective(last.log[i].expr, last.log[i].negate)
              /\ last.log[i].raised => i = Len(last.log)
        /\ last.out = "failure" <=>
              (last.log # << >> /\ ~Effective(last.log[Len(last.log)].expr,
                                               last.log[Len(last.log)].negate))
        /\ last.out = "failure" <=> status = "failed"
        /\ last.out = "failure" <=> last.report.t = "AssertionError"
        /\ (last.op \in AssertOnly /\ last.out = "run") =>
              /\ Flags = last.pre
              /\ last.ret = last.recv
              /\ last.report = NoReport
\* a negated chain asserted a truthy non-boolean expression and it raised
C1_Witness ==
    /\ last.op = "ok" /\ last.pre.negate = Bool(TRUE)
    /\ last.pre.object \in Numbers /\ last.pre.object # Num(0)
    /\ last.out = "failure"

C3_Original ==
    last.op \in LanguageChains \cup {"an", "a"} =>
        /\ last.ret = last.recv
        /\ Flags = last.pre
(***************************************************************************)
(* C3 amended.  to, be, is, and, have, with return the object they were    *)
(* read from; an and a return a new function whose prototype is the object *)
(* they were read from, which owns no flag store and so reads the flags of *)
(* that object; in every case every flag is unchanged.                     *)
(***************************************************************************)
C3_LanguageChains ==
    /\ last.op \in LanguageChains =>
          /\ last.ret = last.recv /\ last.out = "run"
          /\ Flags = last.pre
    /\ last.op \in {"an", "a"} =>
          /\ last.out = "run"
          /\ last.ret = Len(heap) /\ last.ret # last.recv
          /\ heap[last.ret].proto = last.recv
          /\ ~heap[last.ret].has
          /\ FlagsOf(heap, last.ret) = last.pre
          /\ FlagsOf(heap, last.recv) = last.pre
\* `a` was read from an Assertion whose flags had been set
C3_Witness ==
    /\ last.op = "a" /\ last.recv = 1 /\ self = 2
    /\ last.pre.negate = Bool(TRUE)

(***************************************************************************)
(* C4.  Whenever property(name, [value]) returns, with or without a value  *)
(* and negated or not, the object flag holds the value at the dotted path  *)
(* name of the subject it had before, no other flag has changed and the    *)
(* receiver is returned, so what is asserted next is asserted of that      *)
(* value: property('bar', 1) read after property('foo') of {foo:{bar:1}}   *)
(* passes.                                                                 *)
(***************************************************************************)
C4_PropertyReplacesSubject ==
    /\ (last.op = "property" /\ last.out = "run") =>
          /\ Flags = [last.pre EXCEPT !.object = getPathValue(last.args[1], last.pre.object)]
          /\ last.ret = last.recv
    /\ (last.op = "property" /\ last.pre.object = Obj(1) /\ last.pre.negate = Undef
            /\ last.args = <<Str(foo), Undef>>) =>
          last.out = "run" /\ Flags.object = Obj(2)
    /\ (last.op = "property" /\ last.pre.object = Obj(2) /\ last.pre.negate = Undef
            /\ last.args = <<Str(bar), Num(1)>>) =>
          last.out = "run" /\ Flags.object = Num(1)
    /\ (last.op = "equal" /\ last.out = "run" /\ last.pre.negate = Undef) =>
          last.args[1] = last.pre.object
\* property('bar', 1) passed on the {bar:1} that property('foo') had put in
\* place of {foo:{bar:1}}
C4_Witness ==
    /\ last.op = "property" /\ last.args = <<Str(bar), Num(1)>>
    /\ last.pre.object = Obj(2)
    /\ last.out = "run" /\ Flags.object = Num(1)

\* the keys a call of keys was given
Supplied == IF Len(last.args) > 0 /\ last.args[1].t = "array" THEN last.args[1].elems
            ELSE last.args
SuppliedSet == {Supplied[i] : i \in 1..Len(Supplied)}
\* the own keys of the subject the call had
OwnKeySet ==
    LET ps == ObjTable[last.pre.object.id]
    IN  {Str(ps[i][1]) : i \in 1..Len(ps)}
(***************************************************************************)
(* C5 as stated.  For a subject object and a non-empty list of keys, the   *)
(* condition keys hands to assert is: every supplied key is an own key of  *)
(* the subject and, unless negate or contains is set, the supplied key set *)
(* has as many members as the subject has own keys.                        *)
(***************************************************************************)
C5_Original ==
    (last.op = "keys" /\ last.pre.object.t = "object" /\ Supplied # << >>) =>
        /\ Len(last.log) = 1
        /\ Truthy(last.log[1].expr) <=>
              /\ SuppliedSet \subseteq OwnKeySet
              /\ \/ Truthy(last.pre.negate)
                 \/ Truthy(last.pre.contains)
                 \/ Cardinality(SuppliedSet) = Cardinality(OwnKeySet)
\* what the code does compute: the number of keys supplied, repeats counted
C5_CountsRepeats ==
    (last.op = "keys" /\ last.pre.object.t = "object" /\ Supplied # << >>) =>
        /\ Len(last.log) = 1
        /\ Truthy(last.log[1].expr) <=>
              /\ SuppliedSet \subseteq OwnKeySet
              /\ \/ Truthy(last.pre.negate)
                 \/ Truthy(last.pre.contains)
                 \/ Len(Supplied) = Cardinality(OwnKeySet)

(***************************************************************************)
(* C6.  Misuse raises an ordinary Error, never an AssertionError, whatever *)
(* negate and contains are, before anything is asserted and with every     *)
(* flag left as it was: keys with no key (no argument, or an empty array), *)
(* even on a subject whose keys cannot be taken; and property(name, value) *)
(* with negate set, a value given and nothing at name in the subject.      *)
(***************************************************************************)
C6_MisuseIsAnOrdinaryError ==
    /\ (last.op = "keys" /\ Supplied = << >>) =>
          /\ last.out = "error" /\ status = "error"
          /\ last.report = [t |-> "Error", message |-> "keys required"]
          /\ last.log = << >>
          /\ Flags = last.pre
    /\ (last.op = "property" /\ Truthy(last.pre.negate) /\ last.args[2] # Undef
            /\ getPathValue(last.args[1], last.pre.object) = Undef) =>
          /\ last.out = "error" /\ status = "error"
          /\ last.report = [t |-> "Error", message |-> "has no property"]
          /\ last.log = << >>
          /\ Flags = last.pre
\* a negated property('qux', 1) on a subject without qux
C6_Witness ==
    /\ last.op = "property" /\ last.args = <<Str(qux), Num(1)>>
    /\ last.pre.negate = Bool(TRUE) /\ last.pre.object = Obj(3)
    /\ last.out = "error" /\ Flags.object = Obj(3)

\* the call was Throw on a subject that is a function
ThrowOnFunction == last.op = "Throw" /\ last.pre.object.t = "function"
\* what the subject threw (NoThrow when it returned)
ThrownValue == last.pre.object.body
\* the message of v matches the matcher m: the regexp finds a match in it, or
\* the string occurs in it; a value without a message matches nothing
Matches(m, v) ==
    /\ v.t = "error"
    /\ v.msg.t = "string"
    /\ IndexOf(v.msg.s, IF m.t = "regexp" THEN m.pat ELSE m.s) >= 0
\* a regexp, or a string that is not empty
IsMatcher(m) == m.t \in {"regexp", "string"} /\ Truthy(m)
\* the subject returned, or threw an Error instance
ThrewErrorOrNothing == ThrownValue = NoThrow \/ ThrownValue.t = "error"

(***************************************************************************)
(* C7 as stated, of subjects that return or throw an Error instance.       *)
(* Throw, not negated, with one regexp or (non-empty) string argument      *)
(* passes exactly when the subject throws a value whose message matches;   *)
(* it fails when nothing is thrown and when the message of what is thrown  *)
(* does not match, an empty message included.                              *)
(***************************************************************************)
C7_Original ==
    (ThrowOnFunction /\ ThrewErrorOrNothing /\ last.pre.negate = Undef
        /\ Len(last.args) = 1 /\ IsMatcher(last.args[1])) =>
        (last.out = "run" <=> (ThrownValue # NoThrow /\ Matches(last.args[1], ThrownValue)))
\* the same, of thrown values that have a non-empty message, and of nothing
\* thrown: this much the code does
C7_WithMessage ==
    (ThrowOnFunction /\ last.pre.negate = Undef
        /\ Len(last.args) = 1 /\ IsMatcher(last.args[1])
        /\ (ThrownValue = NoThrow \/ Truthy(Message(ThrownValue)))) =>
        (last.out = "run" <=> (ThrownValue # NoThrow /\ Matches(last.args[1], ThrownValue)))

(***************************************************************************)
(* C8 as stated, of subjects that throw an Error instance.  Throw decides  *)
(* by identity, then constructor, then message: given an error instance, a *)
(* throw passes exactly when the thrown value is that instance (inverted   *)
(* under negate); given a                                                  *)
(* constructor alone, exactly when the thrown value is an instance of it   *)
(* (inverted under negate); given a constructor and a matcher, not         *)
(* negated, exactly when the thrown value is an instance of it and its     *)
(* message matches, the message not being looked at when the instance      *)
(* check fails; and at most one assert follows the deciding one.           *)
(***************************************************************************)
C8_Original ==
    (ThrowOnFunction /\ ThrownValue.t = "error" /\ Len(last.args) >= 1) =>
        /\ (Len(last.args) = 1 /\ last.args[1].t = "error") =>
              (last.out = "run" <=>
                  Effective(Bool(ThrownValue = last.args[1]), last.pre.negate))
        /\ (Len(last.args) = 1 /\ last.args[1].t = "ctor") =>
              (last.out = "run" <=>
                  Effective(Bool(InstanceOf(ThrownValue, last.args[1].cls)), last.pre.negate))
        /\ (Len(last.args) = 2 /\ last.args[1].t = "ctor" /\ IsMatcher(last.args[2])
                /\ last.pre.negate = Undef) =>
              /\ last.out = "run" <=>
                    /\ InstanceOf(ThrownValue, last.args[1].cls)
                    /\ Matches(last.args[2], ThrownValue)
              /\ ~InstanceOf(ThrownValue, last.args[1].cls) =>
                    Len(last.log) = 2 /\ last.out = "failure"
        /\ Cardinality(ChainAsserts) <= 2
\* the same, of thrown values that have a non-empty message
C8_WithMessage ==
    (ThrowOnFunction /\ ThrownValue # NoThrow /\ Truthy(Message(ThrownValue))) => C8_Original

(***************************************************************************)
(* C9 as stated, of subjects that return or throw an Error instance.       *)
(* Negated, Throw(ctor, msg) passes exactly when the                       *)
(* subject does not throw, or throws a value that is no instance of ctor   *)
(* and whose message does not match msg; and a negated Throw on a subject  *)
(* that does not throw passes and returns its receiver, whatever the       *)
(* arguments are.                                                          *)
(***************************************************************************)
C9_Original ==
    (ThrowOnFunction /\ ThrewErrorOrNothing /\ last.pre.negate = Bool(TRUE)) =>
        /\ (Len(last.args) = 2 /\ last.args[1].t = "ctor" /\ IsMatcher(last.args[2])) =>
              (last.out = "run" <=>
                  \/ ThrownValue = NoThrow
                  \/ /\ ~InstanceOf(ThrownValue, last.args[1].cls)
                     /\ ~Matches(last.args[2], ThrownValue))
        /\ ThrownValue = NoThrow => (last.out = "run" /\ last.ret = last.recv)
\* the same, of thrown values that have a non-empty message
C9_WithMessage ==
    (ThrowOnFunction /\ (ThrownValue = NoThrow \/ Truthy(Message(ThrownValue)))) =>
        C9_Original

(***************************************************************************)
(* C10.  closeTo(expected, delta) on a number hands assert a condition     *)
(* that is true exactly when the subject is expected - delta or            *)
(* expected + delta; not negated, a subject strictly between the two       *)
(* fails.                                                                  *)
(***************************************************************************)
C10_CloseToEndpoints ==
    (last.op = "closeTo" /\ last.pre.object \in Numbers) =>
        LET x == last.pre.object.n
            e == last.args[1].n
            d == last.args[2].n
        IN  /\ Len(last.log) = 1
            /\ Truthy(last.log[1].expr) <=> (x = e - d \/ x = e + d)
            /\ (last.pre.negate = Undef /\ e - d < x /\ x < e + d) => last.out = "failure"
\* closeTo(0, 2) failed on 1, which is within 2 of 0
C10_Witness ==
    /\ last.op = "closeTo" /\ last.pre.object = Num(1)
    /\ last.args = <<Num(0), Num(2)>>
    /\ last.pre.negate = Undef /\ last.out = "failure"


(***************************************************************************)
(* C11 as stated.  The expected value `true` hands to assert, and that the *)
(* AssertionError it raises carries, is true when the negate flag is unset *)
(* and false when it is set; for `false` it is false when negate is unset  *)
(* and true when it is set.                                                *)
(***************************************************************************)
C11_Original ==
    (last.op \in {"true", "false"} /\ last.log # << >>) =>
        LET want == Bool((last.op = "true") # Truthy(last.pre.negate))
        IN  /\ last.log[1].expected = want
            /\ last.out = "failure" => last.report.expected = want
\* What the getters do: the expected value is the literal the getter is
\* named after, whatever the negate flag holds.
C11_ExpectedIgnoresNegate ==
    (last.op \in {"true", "false"} /\ last.log # << >>) =>
        /\ last.log[1].expected = Bool(last.op = "true")
        /\ last.out = "failure" => last.report.expected = Bool(last.op = "true")


(***************************************************************************)
(* C12.  The precondition of length (the subject has a length), of string  *)
(* (the subject is a string) and of Throw (the subject is a function) is   *)
(* the first assert of the call and is made on a new Assertion built from  *)
(* the subject alone: its negate flag is unset and it has no custom        *)
(* message, whatever the chain has, so it raises an AssertionError exactly *)
(* when the precondition is false, under `not` too (not.Throw() on a       *)
(* non-function fails); and the call never changes a flag of the chain:    *)
(* after length(n) returns, the object flag is still the subject.          *)
(***************************************************************************)
\* the precondition of each of the three, of the subject v
Precondition(op, v) ==
    CASE op = "length" -> v.t \in {"string", "array", "function"}
      [] op = "string" -> v.t = "string"
      [] op = "Throw" -> v.t = "function"
C12_PreconditionsOnFreshEngine ==
    last.op \in {"length", "string", "Throw"} =>
        /\ last.log # << >>
        /\ last.log[1].this > Len(heap)
        /\ last.log[1].negate = Undef
        /\ Truthy(last.log[1].expr) <=> Precondition(last.op, last.pre.object)
        /\ last.log[1].raised <=> ~Precondition(last.op, last.pre.object)
        /\ ~Precondition(last.op, last.pre.object) =>
              /\ last.out = "failure" /\ status = "failed"
              /\ last.report.t = "AssertionError"
              /\ last.report.message = [tmpl |-> "msg", custom |-> Undef]
              /\ last.report.actual = IF last.op = "length" THEN last.pre.object
                                      ELSE Str(TypeTag(last.pre.object))
        /\ FlagsOf(heap, last.recv) = last.pre
        /\ last.out = "run" =>
              /\ Flags = last.pre /\ last.ret = last.recv
              /\ Flags.object = last.pre.object
\* length(n) was called on a number under `not`, on a chain that has a custom
\* message, and failed
C12_Witness ==
    /\ last.op = "length" /\ last.pre.negate = Bool(TRUE)
    /\ last.pre.message # Undef /\ last.pre.object \in Numbers
    /\ last.out = "failure"

(***************************************************************************)
(* C13.  A newly built Assertion has contains unset; reading `include` or  *)
(* `contain`, as a chain word or called with a value, sets contains to     *)
(* true on the chain and changes no other flag; no other read or call      *)
(* changes contains, so once set it stays set and unless one of the two    *)
(* was read it is unset; and a keys call on a chain whose contains flag is *)
(* set tests inclusion only: what it hands to assert is true exactly when  *)
(* every supplied key is an own key of the subject, however many own keys  *)
(* the subject has.                                                        *)
(***************************************************************************)
IncludeReads == {"include", "contain", "include()"}
====
